---- MODULE Spec2Model ----
(***************************************************************************)
(* Model of MolecularPropertiesCalculator                                  *)
(* (2_RDKit/3_Descriptors/src/utils.py).                                   *)
(*                                                                         *)
(* One calculator instance is built from an input of one of the accepted   *)
(* shapes and an abbrev flag; calculate() and to_dataframe() are called on *)
(* it.  The chemistry backend (MolFromSmiles, Descriptors.<name>) is an    *)
(* environment: which descriptor functions exist and which of them raise   *)
(* is fixed per backend and chosen in Init.                                *)
(*                                                                         *)
(* Python values: None is <<>>, any other optional value v is <<v>>.  A    *)
(* dict is kept in insertion order as a sequence of [name, value] records; *)
(* the per-molecule property dict is a function from display name to an    *)
(* optional number.                                                        *)
(***************************************************************************)
EXTENDS Integers, Sequences, FiniteSets

VARIABLES
    input_data,     \* self.input_data
    abbrev,         \* self.abbrev
    absent,         \* descriptor names the backend does not provide
    raising,        \* <<descriptor name, molecule>> pairs on which the backend raises
    molecule_set,   \* self.molecule_set
    last            \* the last public call: arguments, outcome and evaluation log

vars == <<input_data, abbrev, absent, raising, molecule_set, last>>

----------------------------------------------------------------------------
(* Bounds of the model *)

MaxEntries == 2     \* entries of the input: mapping pairs and objects
MaxRecords == 2     \* calculate() is called while self.molecule_set is shorter

Names == {"a", "b"}                    \* names used as mapping keys
SmilesStrings == {"C", "X"}            \* identifier strings; "X" does not parse
Objects == {2}                         \* already-parsed molecule objects
FaultKeys == {"MolWt", "MolLogP"}      \* descriptors a backend may lack or fail on
FaultMols == {1}                       \* molecules a descriptor may fail on

----------------------------------------------------------------------------
(* Python values *)

None == <<>>
Some(v) == <<v>>

EmptyMap == [x \in {} |-> None]

\* d[k] = v on a per-molecule property dict
MapSet(f, k, v) == [x \in (DOMAIN f) \cup {k} |-> IF x = k THEN v ELSE f[x]]

DictKeys(d) == [i \in 1..Len(d) |-> d[i].name]

DictHas(d, name) == \E i \in 1..Len(d) : d[i].name = name

DictGet(d, name) == d[CHOOSE i \in 1..Len(d) : d[i].name = name].value

\* Mutation of DictSet: a name already present gets a second entry
DictSetAppend(d, name, value) == Append(d, [name |-> name, value |-> value])

\* d[name] = value on an insertion-ordered dict: an existing key keeps its
\* position, a new key goes last
DictSet(d, name, value) ==
    IF DictHas(d, name)
    THEN [i \in 1..Len(d) |-> IF d[i].name = name
                              THEN [name |-> name, value |-> value]
                              ELSE d[i]]
    ELSE Append(d, [name |-> name, value |-> value])

----------------------------------------------------------------------------
(* The chemistry backend *)

\* rdkit.Chem.MolFromSmiles: a molecule, or None for an unparseable string
MolFromSmiles(smiles_str) ==
    IF smiles_str = "C" THEN Some(1) ELSE None

\* str(item) of a molecule object
Str(item) == IF item = 1 THEN "m1" ELSE "m2"

\* self.properties, in insertion order
RegistryKeys ==
    <<"MolWt", "MolLogP", "NumHDonors", "NumHAcceptors", "NumRotatableBonds",
      "NumAromaticRings", "TPSA", "HeavyAtomCount", "FractionCSP3", "LabuteASA">>

self_properties ==
    [MolWt             |-> [full |-> "Molecular Weight", abbrev |-> "MW"],
     MolLogP           |-> [full |-> "LogP",             abbrev |-> "LogP"],
     NumHDonors        |-> [full |-> "H-bond Donors",    abbrev |-> "HBD"],
     NumHAcceptors     |-> [full |-> "H-bond Acceptors", abbrev |-> "HBA"],
     NumRotatableBonds |-> [full |-> "Rotatable Bonds",  abbrev |-> "RB"],
     NumAromaticRings  |-> [full |-> "Aromatic Rings",   abbrev |-> "AR"],
     TPSA              |-> [full |-> "TPSA",             abbrev |-> "TPSA"],
     HeavyAtomCount    |-> [full |-> "Heavy Atom Count", abbrev |-> "HAC"],
     FractionCSP3      |-> [full |-> "FractionCSP3",     abbrev |-> "FSP3"],
     LabuteASA         |-> [full |-> "Labute ASA",       abbrev |-> "ASA"]]

KeyIndex(desc_name) ==
    CHOOSE i \in 1..Len(RegistryKeys) : RegistryKeys[i] = desc_name

\* The number Descriptors.<desc_name>(molecule) returns: deterministic, and
\* distinct for distinct descriptors and molecules
DescriptorValue(desc_name, molecule) == 10 * KeyIndex(desc_name) + molecule

----------------------------------------------------------------------------
(* _calculate_for_molecule *)

\* The locals of _calculate_for_molecule at entry: result = {}, key unbound
CalcStart == [result |-> EmptyMap, key |-> None, invoked |-> <<>>, err |-> ""]

\* One iteration of `for desc_name in properties_to_calculate` for a key of
\* the registry (the lines after the KeyError check).  acc.key is the local
\* `key`: None while unbound, and it keeps the value an earlier iteration gave
\* it.  A missing descriptor function reaches `result[key] = None` with that
\* stale or unbound `key`; unbound, the except clause fails the same way and
\* the UnboundLocalError leaves the function.  acc.invoked lists the
\* descriptor functions called.
CalcKnownKey(acc, desc_name, molecule, ab) ==
    LET names == self_properties[desc_name] IN
    IF desc_name \notin absent
    THEN LET key == IF ab THEN names.abbrev ELSE names.full
             value == IF <<desc_name, molecule>> \in raising
                      THEN None
                      ELSE Some(DescriptorValue(desc_name, molecule))
         IN  [result  |-> MapSet(acc.result, key, value),
              key     |-> Some(key),
              invoked |-> Append(acc.invoked, desc_name),
              err     |-> ""]
    ELSE IF acc.key = None
         THEN [acc EXCEPT !.err = "UnboundLocalError"]
         ELSE [acc EXCEPT !.result = MapSet(acc.result, acc.key[1], None)]

\* Mutation of CalcKey: an unknown key is skipped instead of raising
CalcKeySkipUnknown(acc, desc_name, molecule, ab) ==
    IF desc_name \notin DOMAIN self_properties
    THEN acc
    ELSE CalcKnownKey(acc, desc_name, molecule, ab)

\* One iteration of `for desc_name in properties_to_calculate`
CalcKey(acc, desc_name, molecule, ab) ==
    IF desc_name \notin DOMAIN self_properties
    THEN [acc EXCEPT !.err = "KeyError"]
    ELSE CalcKnownKey(acc, desc_name, molecule, ab)

RECURSIVE CalcLoop(_, _, _, _, _)
CalcLoop(acc, keys, i, molecule, ab) ==
    IF i > Len(keys) \/ acc.err # ""
    THEN acc
    ELSE CalcLoop(CalcKey(acc, keys[i], molecule, ab), keys, i + 1, molecule, ab)

\* properties if properties else self.properties.keys()
PropertiesToCalculate(properties) ==
    IF properties # None /\ Len(properties[1]) > 0
    THEN properties[1]
    ELSE RegistryKeys

calculate_for_molecule(molecule, properties, ab) ==
    CalcLoop(CalcStart, PropertiesToCalculate(properties), 1, molecule, ab)

----------------------------------------------------------------------------
(* Molecule (the pydantic model) *)

\* Molecule(name=..., smiles=..., properties=...): the smiles validator
\* rejects an unparseable string, and Dict[str, float] rejects a None value
Molecule(name, smiles, properties) ==
    IF smiles # None /\ MolFromSmiles(smiles[1]) = None
    THEN [err |-> "ValidationError", rec |-> None]
    ELSE IF properties # None
            /\ \E k \in DOMAIN properties[1] : properties[1][k] = None
    THEN [err |-> "ValidationError", rec |-> None]
    ELSE [err |-> "",
          rec |-> Some([name |-> name, smiles |-> smiles,
                        properties |-> properties])]

----------------------------------------------------------------------------
(* calculate *)

\* The state of one calculate() call: the local `results`, self.molecule_set,
\* the number n of input entries met, the error that ended the call (if any)
\* and the entry at which it was raised, and the log of the evaluator calls.
CallStart(ms) ==
    [results |-> <<>>, molecule_set |-> ms, n |-> 0, err |-> "", errAt |-> 0,
     evals |-> <<>>]

\* A parsed molecule or a molecule object: evaluate, store the entry in
\* results, build the Molecule and append it
ProcessMolecule(st, name, smiles, molecule, properties, ab) ==
    LET out == calculate_for_molecule(molecule, properties, ab)
        n   == st.n + 1
        ev  == Append(st.evals, [n |-> n, mol |-> molecule, err |-> out.err,
                                 result |-> out.result, invoked |-> out.invoked])
    IN  IF out.err # ""
        THEN [st EXCEPT !.n = n, !.evals = ev, !.err = out.err, !.errAt = n]
        ELSE LET res == DictSet(st.results, name,
                                [smiles |-> smiles, properties |-> Some(out.result)])
                 m   == Molecule(name, smiles, Some(out.result))
             IN  IF m.err # ""
                 THEN [st EXCEPT !.n = n, !.evals = ev, !.results = res,
                                 !.err = m.err, !.errAt = n]
                 ELSE [st EXCEPT !.n = n, !.evals = ev, !.results = res,
                                 !.molecule_set = Append(st.molecule_set, m.rec[1])]

\* Mutation of RecordUnparsed: the unparsed entry is skipped, not recorded
RecordUnparsedSkipped(st, name, smiles_str) == [st EXCEPT !.n = st.n + 1]

\* The else branch of `if molecule:`: the identifier did not parse
RecordUnparsed(st, name, smiles_str) ==
    [st EXCEPT !.n = st.n + 1,
               !.results = DictSet(st.results, name,
                                   [smiles |-> Some(smiles_str), properties |-> None])]

\* The body of `for name, smiles_str in ....items()`
ProcessPair(st, name, smiles_str, properties, ab) ==
    LET molecule == MolFromSmiles(smiles_str) IN
    IF molecule # None
    THEN ProcessMolecule(st, name, Some(smiles_str), molecule[1], properties, ab)
    ELSE RecordUnparsed(st, name, smiles_str)

RECURSIVE ProcessPairs(_, _, _, _, _)
ProcessPairs(st, pairs, i, properties, ab) ==
    IF i > Len(pairs) \/ st.err # ""
    THEN st
    ELSE ProcessPairs(ProcessPair(st, pairs[i][1], pairs[i][2], properties, ab),
                      pairs, i + 1, properties, ab)

\* The body of `for item in self.input_data`
ProcessItem(st, item, properties, ab) ==
    IF item.kind = "dict"
    THEN ProcessPairs(st, item.pairs, 1, properties, ab)
    ELSE ProcessMolecule(st, Str(item.obj), None, item.obj, properties, ab)

RECURSIVE ProcessItems(_, _, _, _, _)
ProcessItems(st, items, i, properties, ab) ==
    IF i > Len(items) \/ st.err # ""
    THEN st
    ELSE ProcessItems(ProcessItem(st, items[i], properties, ab),
                      items, i + 1, properties, ab)

\* calculate() up to the `if as_df:` line, on input `input` with flag `ab`
CalculateBody(input, ab, properties, ms) ==
    IF input.shape = "list"
    THEN ProcessItems(CallStart(ms), input.items, 1, properties, ab)
    ELSE IF input.shape = "dict"
    THEN ProcessPairs(CallStart(ms), input.pairs, 1, properties, ab)
    ELSE ProcessMolecule(CallStart(ms), Str(input.obj), None, input.obj, properties, ab)

----------------------------------------------------------------------------
(* to_dataframe *)

\* The dict comprehension of to_dataframe: one key per molecule name, a later
\* molecule of the same name replaces the row; **None raises TypeError
RECURSIVE DataRows(_, _, _)
DataRows(data, ms, i) ==
    IF i > Len(ms)
    THEN [err |-> "", rows |-> data]
    ELSE IF ms[i].properties = None
    THEN [err |-> "TypeError", rows |-> <<>>]
    ELSE DataRows(DictSet(data, ms[i].name,
                          [properties |-> ms[i].properties[1], smiles |-> ms[i].smiles]),
                  ms, i + 1)

to_dataframe(ms) == DataRows(<<>>, ms, 1)

----------------------------------------------------------------------------
(* Inputs *)

\* A Python dict of name -> identifier string: pairs in insertion order,
\* names distinct
PairSeqs ==
    {p \in UNION {[1..k -> Names \X SmilesStrings] : k \in 0..MaxEntries} :
        \A i, j \in 1..Len(p) : p[i][1] = p[j][1] => i = j}

DictItem(pairs) == [kind |-> "dict", pairs |-> pairs, obj |-> 0]
ObjItem(obj) == [kind |-> "obj", pairs |-> <<>>, obj |-> obj]

Items == {DictItem(p) : p \in PairSeqs} \cup {ObjItem(o) : o \in Objects}

\* The size of a list element: its pairs, an empty mapping counting as one
ItemSize(item) ==
    IF item.kind = "dict" /\ Len(item.pairs) > 1 THEN Len(item.pairs) ELSE 1

RECURSIVE ItemsSize(_, _)
ItemsSize(items, i) ==
    IF i > Len(items) THEN 0 ELSE ItemSize(items[i]) + ItemsSize(items, i + 1)

ItemLists ==
    {l \in UNION {[1..k -> Items] : k \in 0..MaxEntries} :
        ItemsSize(l, 1) <= MaxEntries}

\* The four input shapes: a single object, a mapping, a list of mappings and
\* objects
Inputs ==
    {[shape |-> "object", obj |-> o, pairs |-> <<>>, items |-> <<>>] : o \in Objects}
    \cup {[shape |-> "dict", obj |-> 0, pairs |-> p, items |-> <<>>] : p \in PairSeqs}
    \cup {[shape |-> "list", obj |-> 0, pairs |-> <<>>, items |-> l] : l \in ItemLists}

\* The `properties` argument: None, or a list of keys
PropertiesArgs ==
    {None, Some(<<>>), Some(<<"MolWt">>), Some(<<"NumHDonors", "MolWt">>),
     Some(<<"NoSuchKey">>), Some(<<"MolWt", "NoSuchKey">>),
     Some(<<"NoSuchKey", "MolWt">>)}

\* A backend lacks at most one descriptor, or fails on at most one
Backends ==
    {[absent |-> {}, raising |-> {}]}
    \cup {[absent |-> {k}, raising |-> {}] : k \in FaultKeys}
    \cup {[absent |-> {}, raising |-> {<<k, m>>}] : k \in FaultKeys, m \in FaultMols}

----------------------------------------------------------------------------
(* The state machine *)

NoCall ==
    [op |-> "none", as_df |-> FALSE, properties |-> None, err |-> "", errAt |-> 0,
     n |-> 0, evals |-> <<>>, mapping |-> None, table |-> None]

\* __init__
Init ==
    /\ input_data \in Inputs
    /\ abbrev \in BOOLEAN
    /\ \E b \in Backends : absent = b.absent /\ raising = b.raising
    /\ molecule_set = <<>>
    /\ last = NoCall

\* calculate(as_df, properties): the whole call.  An exception leaves
\* self.molecule_set as the call had changed it so far and returns nothing.
Calculate(as_df, properties) ==
    /\ Len(molecule_set) < MaxRecords
    /\ \E st \in {CalculateBody(input_data, abbrev, properties, molecule_set)} :
       LET tbl == to_dataframe(st.molecule_set)
           err == IF st.err # "" THEN st.err
                  ELSE IF as_df THEN tbl.err ELSE ""
       IN  /\ molecule_set' = st.molecule_set
           /\ last' = [op |-> "calculate", as_df |-> as_df,
                       properties |-> properties,
                       err |-> err, errAt |-> st.errAt, n |-> st.n,
                       evals |-> st.evals,
                       mapping |-> IF err = "" /\ ~as_df THEN Some(st.results) ELSE None,
                       table |-> IF err = "" /\ as_df THEN Some(tbl.rows) ELSE None]
    /\ UNCHANGED <<input_data, abbrev, absent, raising>>

\* to_dataframe() called by the user
ToDataframe ==
    /\ LET tbl == to_dataframe(molecule_set)
       IN  last' = [NoCall EXCEPT !.op = "to_dataframe", !.err = tbl.err,
                                  !.table = IF tbl.err = "" THEN Some(tbl.rows) ELSE None]
    /\ UNCHANGED <<input_data, abbrev, absent, raising, molecule_set>>

Next ==
    \/ \E as_df \in BOOLEAN, properties \in PropertiesArgs : Calculate(as_df, properties)
    \/ ToDataframe

Spec == Init /\ [][Next]_vars

----------------------------------------------------------------------------
(* The input as calculate() iterates over it *)

PairEntries(pairs) ==
    [i \in 1..Len(pairs) |->
        [name |-> pairs[i][1], smiles |-> Some(pairs[i][2]),
         mol |-> MolFromSmiles(pairs[i][2])]]

ObjectEntry(obj) == [name |-> Str(obj), smiles |-> None, mol |-> Some(obj)]

RECURSIVE ItemEntries(_, _)
ItemEntries(items, i) ==
    IF i > Len(items) THEN <<>>
    ELSE (IF items[i].kind = "dict" THEN PairEntries(items[i].pairs)
          ELSE <<ObjectEntry(items[i].obj)>>) \o ItemEntries(items, i + 1)

\* The (name, identifier, parsed molecule) entries of the input, in the order
\* the loops of calculate() meet them
InputEntries(input) ==
    IF input.shape = "list" THEN ItemEntries(input.items, 1)
    ELSE IF input.shape = "dict" THEN PairEntries(input.pairs)
    ELSE <<ObjectEntry(input.obj)>>

\* The last entry of the input that carries `name`
LastEntry(entries, name) ==
    entries[CHOOSE i \in 1..Len(entries) :
                /\ entries[i].name = name
                /\ \A j \in (i + 1)..Len(entries) : entries[j].name # name]

\* The names of the entries, each kept where it is first met
RECURSIVE FirstMet(_, _, _)
FirstMet(entries, i, acc) ==
    IF i > Len(entries) THEN acc
    ELSE FirstMet(entries, i + 1,
                  IF \E j \in 1..Len(acc) : acc[j] = entries[i].name
                  THEN acc
                  ELSE Append(acc, entries[i].name))

Elements(seq) == {seq[i] : i \in 1..Len(seq)}

\* `properties` names a key that is not in the registry
HasUnknown(properties) ==
    /\ properties # None
    /\ \E k \in Elements(properties[1]) : k \notin DOMAIN self_properties

\* The keys the caller asked for: all registry keys when `properties` is None
RequestedKeys(properties) ==
    IF properties = None THEN Elements(RegistryKeys) ELSE Elements(properties[1])

DisplayName(desc_name, ab) ==
    IF ab THEN self_properties[desc_name].abbrev ELSE self_properties[desc_name].full

\* What the backend yields for a descriptor of a molecule: None when the
\* descriptor is missing or raises
Computed(desc_name, molecule) ==
    IF desc_name \in absent \/ <<desc_name, molecule>> \in raising
    THEN None
    ELSE Some(DescriptorValue(desc_name, molecule))

----------------------------------------------------------------------------
(* Claims *)

Returned == last.op = "calculate" /\ last.mapping # None

\* C1: a calculate call whose `properties` holds a key absent from the
\* registry fails with the unknown-property error, whatever the input
\* (refuted: with no parsed structure in the input the key is never looked at)
C1_UnknownKeyFails ==
    (last.op = "calculate" /\ HasUnknown(last.properties))
        => last.err = "KeyError"

\* C2: when a requested descriptor is missing or raises, the evaluator
\* records null under that key's own display name, records the computed value
\* of every other requested key, and the call does not raise
\* (refuted: a missing descriptor writes to a stale or unbound `key`, and a
\* null value is rejected by Molecule)
C2_FaultIsolated ==
    (last.op = "calculate" /\ ~HasUnknown(last.properties))
        => /\ last.err = ""
           /\ \A i \in 1..Len(last.evals) :
                LET e == last.evals[i] IN
                /\ e.err = ""
                /\ \A k \in Elements(PropertiesToCalculate(last.properties)) :
                     /\ DisplayName(k, abbrev) \in DOMAIN e.result
                     /\ e.result[DisplayName(k, abbrev)] = Computed(k, e.mol)

\* C3: for a `properties` argument that is a subset of the registry keys,
\* the empty one included, the property mapping of every parsed structure has
\* exactly the display names of that subset as its keys
\* (refuted: the empty list is treated like None and yields all ten keys)
C3_KeySetIsRequested ==
    (Returned /\ last.properties # None /\ ~HasUnknown(last.properties))
        => \A i \in 1..Len(last.mapping[1]) :
             LET v == last.mapping[1][i].value IN
             v.properties # None
                 => DOMAIN v.properties[1]
                      = {DisplayName(k, abbrev) : k \in Elements(last.properties[1])}

\* C4: a calculate call that requests an unknown key leaves
\* self.molecule_set exactly as it was before the call
C4_UnknownKeyKeepsRecords ==
    [][(last'.op = "calculate" /\ HasUnknown(last'.properties))
          => molecule_set' = molecule_set]_vars

\* A call with an unknown key has failed on an instance that already holds
\* records of an earlier call
C4_Witness ==
    /\ last.op = "calculate"
    /\ HasUnknown(last.properties)
    /\ last.err = "KeyError"
    /\ Len(molecule_set) > 0

\* C5: in a call whose requested keys include an unknown key, no descriptor
\* function is invoked for any structure before the error, wherever the
\* unknown key sits in the list
\* (refuted: the key is checked inside the per-structure loop, after the keys
\* that precede it were computed)
C5_NothingInvokedBeforeError ==
    (last.op = "calculate" /\ HasUnknown(last.properties))
        => \A i \in 1..Len(last.evals) : last.evals[i].invoked = <<>>

\* C6 as stated: every identifier that fails parsing has the entry
\* {smiles: raw string, properties: null} under its name in the returned
\* mapping, and every parsed item and object has non-null properties
\* (refuted: a later item of the same name replaces the entry)
C6_EveryItemKeepsItsEntry ==
    Returned
        => \A i \in 1..Len(InputEntries(input_data)) :
             LET e == InputEntries(input_data)[i] IN
             /\ DictHas(last.mapping[1], e.name)
             /\ e.mol = None
                  => DictGet(last.mapping[1], e.name)
                       = [smiles |-> e.smiles, properties |-> None]
             /\ e.mol # None
                  => DictGet(last.mapping[1], e.name).properties # None

\* C6 amended: no descriptor function is invoked for an identifier that
\* fails parsing and the call never raises at such an item; a returned
\* mapping was built from all items, and under each name it holds the entry
\* of the last item carrying that name: {smiles: raw string, properties:
\* null} if that item failed parsing, non-null properties otherwise
C6_LastItemDecidesEntry ==
    last.op = "calculate"
        => LET entries == InputEntries(input_data) IN
           /\ \A i \in 1..Len(last.evals) : entries[last.evals[i].n].mol # None
           /\ last.errAt # 0 => entries[last.errAt].mol # None
           /\ last.mapping # None
                => /\ last.n = Len(entries)
                   /\ \A i \in 1..Len(entries) :
                        LET e == LastEntry(entries, entries[i].name)
                            v == DictGet(last.mapping[1], e.name)
                        IN  /\ DictHas(last.mapping[1], e.name)
                            /\ v.smiles = e.smiles
                            /\ v.properties = None <=> e.mol = None

\* A mapping was returned in which an identifier that failed parsing is
\* followed by a structure that was evaluated
C6_Witness ==
    /\ Returned
    /\ Len(last.mapping[1]) = 2
    /\ last.mapping[1][1].value.properties = None
    /\ last.mapping[1][2].value.properties # None
    /\ Len(last.evals) = 1

\* C7: a calculate call appends a Structure Record for every input item,
\* with null properties for an item whose identifier failed parsing, and the
\* table export has a row for each such record
\* (refuted: nothing is appended for an identifier that fails parsing)
C7_RecordForEveryItem ==
    (last.op = "calculate" /\ last.err = "")
        => /\ Len(molecule_set) >= last.n
           /\ \A i \in 1..Len(InputEntries(input_data)) :
                LET e == InputEntries(input_data)[i] IN
                e.mol = None
                    => \E j \in 1..Len(molecule_set) :
                         /\ molecule_set[j].name = e.name
                         /\ molecule_set[j].properties = None

\* C8: the mapping returned by calculate(as_df=False) with valid keys has one
\* entry per distinct input name, in the order in which the names are first
\* met when iterating the input
C8_OneEntryPerNameInOrder ==
    (Returned /\ ~HasUnknown(last.properties))
        => DictKeys(last.mapping[1]) = FirstMet(InputEntries(input_data), 1, <<>>)

\* A list input whose names are met in the order b, a was returned as a
\* mapping with the keys in that order
C8_Witness ==
    /\ Returned
    /\ ~HasUnknown(last.properties)
    /\ input_data.shape = "list"
    /\ DictKeys(last.mapping[1]) = <<"b", "a">>

\* C9: for the same input and requested keys, the mapping of the calculator
\* built with abbrev=True and that of the one built with abbrev=False hold,
\* for every requested key, the same value under the abbreviated and the full
\* name, and no other key
\* (refuted: for the empty list both hold all ten keys, none of them requested)
C9_AbbrevOnlyRenames ==
    Returned
        => LET other == CalculateBody(input_data, ~abbrev, last.properties, <<>>)
               keys  == RequestedKeys(last.properties)
           IN  /\ other.err = ""
               /\ DictKeys(other.results) = DictKeys(last.mapping[1])
               /\ \A i \in 1..Len(last.mapping[1]) :
                    LET mine   == last.mapping[1][i].value.properties
                        theirs == other.results[i].value.properties
                    IN  /\ mine = None <=> theirs = None
                        /\ mine # None
                             => /\ DOMAIN mine[1]
                                     = {DisplayName(k, abbrev) : k \in keys}
                                /\ DOMAIN theirs[1]
                                     = {DisplayName(k, ~abbrev) : k \in keys}
                                /\ \A k \in keys :
                                     mine[1][DisplayName(k, abbrev)]
                                       = theirs[1][DisplayName(k, ~abbrev)]

\* C10: the table export has one row per accumulated Structure Record, also
\* when the same name was recorded more than once
\* (refuted: the rows are keyed by name, so records of one name share a row)
C10_RowPerRecord ==
    last.table # None => Len(last.table[1]) = Len(molecule_set)

====
